---- MODULE Spec2Model ----
(***************************************************************************)
(* A model of ehx's display/transcoding core:                              *)
(*   - encoding::decode_for_display and its per-encoding scanners,         *)
(*   - clipboard::bytes_to_hex / hex_to_bytes,                             *)
(*   - clipboard OSC 52 framing and the dual-target copy operations,       *)
(*   - ui::HexView rendering,                                              *)
(*   - CharEncoding::next, the encoding cycle.                             *)
(* Bytes are integers 0..255, strings are sequences of code points         *)
(* (text produced by the codecs) or of one-character strings (hex text).   *)
(* Offsets are 0-based as in the source; At(s, k) reads offset k.          *)
(***************************************************************************)
EXTENDS Integers, Sequences, FiniteSets, TLC

VARIABLES
    \* ---- decode_for_display ----
    bytes,      \* the input slice
    encoding,   \* the CharEncoding
    i,          \* the scanner's position
    result,     \* Vec<Option<DecodedChar>>
    pc,         \* where the call is: "call", a scanner's name, "done", "idle"
    \* ---- bytes_to_hex / hex_to_bytes ----
    hexIn,      \* the bytes given to bytes_to_hex
    hexFmt,     \* the HexFormat
    hexStr,     \* the hex text: written by bytes_to_hex, or a text to parse
    hexOut,     \* the Result of hex_to_bytes
    hexPc,      \* "format", "formatted", "roundtrip", "parse", "parsed", "idle"
    \* ---- clipboard copy operations ----
    copyOp,     \* the function called
    copyData,   \* its bytes (for copy_text_to_all: the bytes of its text)
    copyFmt,    \* its HexFormat (copy_hex_to_all)
    tmux,       \* environment: TMUX is set
    sty,        \* environment: STY is set
    sysClip,    \* the OS clipboard: its text as bytes, or NoText
    sysResult,  \* the Result of copy_hex / copy_text
    osc52,      \* copy_to_terminal's `osc52`
    sequence,   \* copy_to_terminal's `sequence`
    stdout,     \* the bytes written to standard output
    flushed,    \* standard output was flushed after the write
    termResult, \* the Result of copy_to_terminal
    returned,   \* the Result the called function returned
    copyPc,     \* "call", "build", "frame", "write", "flush", "return", "done", "idle"
    \* ---- HexView ----
    data,           \* HexView.data
    offset,         \* HexView.offset
    bytes_per_row,  \* HexView.bytes_per_row
    cursor,         \* HexView.cursor
    selection,      \* HexView.selection: NoSelection or <<start, end>>
    mode,           \* HexView.mode
    area_height,    \* the height of the Rect given to render
    grid,           \* what render wrote to the buffer
    viewPc,         \* "built", "rendered", "idle"
    \* ---- CharEncoding::next ----
    current,        \* the CharEncoding a holder of one cycles with next()
    visited,        \* the encodings `current` has been, the first one first
    cyclePc         \* "cycling", "idle"

decodeVars == <<bytes, encoding, i, result, pc>>

hexVars == <<hexIn, hexFmt, hexStr, hexOut, hexPc>>

copyVars == <<copyOp, copyData, copyFmt, tmux, sty, sysClip, sysResult, osc52,
              sequence, stdout, flushed, termResult, returned, copyPc>>

viewVars == <<data, offset, bytes_per_row, cursor, selection, mode, area_height,
              grid, viewPc>>

cycleVars == <<current, visited, cyclePc>>

vars == <<decodeVars, hexVars, copyVars, viewVars, cycleVars>>

\* What each component's operations leave alone.
nonDecodeVars == <<hexVars, copyVars, viewVars, cycleVars>>

nonHexVars == <<decodeVars, copyVars, viewVars, cycleVars>>

nonCopyVars == <<decodeVars, hexVars, viewVars, cycleVars>>

nonViewVars == <<decodeVars, hexVars, copyVars, cycleVars>>

nonCycleVars == <<decodeVars, hexVars, copyVars, viewVars>>

\* ------------------------------------------------------------------ bounds

\* Longest input slice given to decode_for_display.
MaxLen == 4
\* Longest input slice for the two UTF-16 encodings (a surrogate pair that
\* does not start at offset 0 needs six bytes).
MaxLenUtf16 == 6
\* Longest byte sequence given to bytes_to_hex.
MaxHexBytes == 4
\* Longest text given to hex_to_bytes.
MaxHexText == 4
\* Longest byte sequence or text given to the copy operations.
MaxCopy == 3
\* Longest data slice shown by a HexView.
MaxData == 2
\* Largest display offset set on a HexView.
MaxOffset == 1
\* Largest bytes_per_row set on a HexView through its builder.
MaxBytesPerRow == 2
\* Largest height of the area a HexView is rendered into.
MaxHeight == 3
\* Most calls of CharEncoding::next in a row (two turns of the cycle).
MaxSteps == 16

\* ----------------------------------------------------------------- helpers

BoundedSeq(S, n) == UNION {[1..k -> S] : k \in 0..n}

At(s, k) == s[k + 1]

\* s[from..to) with 0-based offsets, as a Rust slice.
Slice(s, from, to) == [k \in 1..(to - from) |-> s[from + k]]

Min(a, b) == IF a < b THEN a ELSE b

Max(a, b) == IF a > b THEN a ELSE b

RECURSIVE Pow2(_)
Pow2(n) == IF n = 0 THEN 1 ELSE 2 * Pow2(n - 1)

\* x << n on u32 values that do not overflow here.
Shl(x, n) == x * Pow2(n)

\* --------------------------------------------------------------- encodings

Encodings == {"Utf8", "Utf16Le", "Utf16Be", "ShiftJis", "EucJp",
              "Iso2022Jp", "Ascii", "Latin1"}

\* Option<DecodedChar>
None == [some |-> FALSE]

DecodedChar(display, byte_len, width) ==
    [some |-> TRUE, display |-> display, byte_len |-> byte_len, width |-> width]

\* "." as a display string
Dot == <<46>>

\* The 1-byte placeholder the scanners emit for an undecodable byte.
Placeholder == DecodedChar(Dot, 1, 1)

\* u8::is_ascii_graphic() || byte == b' '
IsPrintableAscii(b) == b >= 32 /\ b <= 126

\* char::is_control: general category Cc
IsControl(cp) == cp <= 31 \/ (cp >= 127 /\ cp <= 159)

\* is_displayable on a non-empty string: decided by its first char.
is_displayable(s) ==
    IF Len(s) = 0 THEN FALSE
    ELSE LET ch == s[1] IN
         IF IsControl(ch) /\ ch # 32 THEN FALSE
         ELSE IF ch = 65533 THEN FALSE
         ELSE TRUE

\* UnicodeWidthChar: the column width of one code point. The table of the
\* unicode-width crate is cut to the blocks the inputs below can produce:
\* controls and combining marks 0, East Asian Wide/Fullwidth 2, the rest 1.
CharWidth(cp) ==
    IF IsControl(cp) \/ cp = 0 THEN 0
    ELSE IF cp >= 768 /\ cp <= 879 THEN 0
    ELSE IF \/ (cp >= 4352 /\ cp <= 4447)
            \/ (cp >= 11904 /\ cp <= 42191)
            \/ (cp >= 44032 /\ cp <= 55203)
            \/ (cp >= 63744 /\ cp <= 64255)
            \/ (cp >= 65280 /\ cp <= 65376)
            \/ (cp >= 65504 /\ cp <= 65510)
            \/ (cp >= 127744 /\ cp <= 128591)
            \/ (cp >= 131072 /\ cp <= 262141)
         THEN 2
    ELSE 1

\* UnicodeWidthStr::width: the sum over the string's chars.
RECURSIVE StrWidth(_)
StrWidth(s) == IF Len(s) = 0 THEN 0 ELSE CharWidth(Head(s)) + StrWidth(Tail(s))

\* ------------------------------------------------------------------- UTF-8

utf8_char_len(first_byte) ==
    IF first_byte <= 127 THEN 1
    ELSE IF first_byte >= 192 /\ first_byte <= 223 THEN 2
    ELSE IF first_byte >= 224 /\ first_byte <= 239 THEN 3
    ELSE IF first_byte >= 240 /\ first_byte <= 247 THEN 4
    ELSE 0

IsCont(b) == b >= 128 /\ b <= 191

\* std::str::from_utf8(slice).is_ok() for a slice whose length is
\* utf8_char_len of its first byte: the well-formed byte sequences of
\* the Unicode standard (no overlong forms, no surrogates, <= U+10FFFF).
from_utf8_ok(s) ==
    LET b0 == s[1] IN
    CASE Len(s) = 1 -> b0 <= 127
      [] Len(s) = 2 -> b0 >= 194 /\ b0 <= 223 /\ IsCont(s[2])
      [] Len(s) = 3 ->
            /\ IsCont(s[3])
            /\ \/ b0 = 224 /\ s[2] >= 160 /\ s[2] <= 191
               \/ b0 >= 225 /\ b0 <= 236 /\ IsCont(s[2])
               \/ b0 = 237 /\ s[2] >= 128 /\ s[2] <= 159
               \/ b0 >= 238 /\ b0 <= 239 /\ IsCont(s[2])
      [] Len(s) = 4 ->
            /\ IsCont(s[3]) /\ IsCont(s[4])
            /\ \/ b0 = 240 /\ s[2] >= 144 /\ s[2] <= 191
               \/ b0 >= 241 /\ b0 <= 243 /\ IsCont(s[2])
               \/ b0 = 244 /\ s[2] >= 128 /\ s[2] <= 143
      [] OTHER -> FALSE

\* The code point of a well-formed UTF-8 sequence.
Utf8CodePoint(s) ==
    CASE Len(s) = 1 -> s[1]
      [] Len(s) = 2 -> (s[1] % 32) * 64 + (s[2] % 64)
      [] Len(s) = 3 -> (s[1] % 16) * 4096 + (s[2] % 64) * 64 + (s[3] % 64)
      [] OTHER -> (s[1] % 8) * 262144 + (s[2] % 64) * 4096
                    + (s[3] % 64) * 64 + (s[4] % 64)

\* Utf8Iter with the Err arm advancing by char_len instead of 1.
Utf8IterSkipLen(bs, k) ==
    LET char_len == utf8_char_len(At(bs, k)) IN
    IF char_len = 0 \/ k + char_len > Len(bs)
    THEN [unit |-> Placeholder, adv |-> 1]
    ELSE LET slice == Slice(bs, k, k + char_len) IN
         IF from_utf8_ok(slice)
         THEN LET g == <<Utf8CodePoint(slice)>>
                  width == Max(StrWidth(g), 1)
                  display == IF is_displayable(g) THEN g ELSE Dot
              IN [unit |-> DecodedChar(display, char_len, width), adv |-> char_len]
         ELSE [unit |-> Placeholder, adv |-> char_len]

\* One iteration of decode_utf8_for_display's loop at offset k: the unit
\* stored in result[k] and the distance the scan advances.
Utf8Iter(bs, k) ==
    LET char_len == utf8_char_len(At(bs, k)) IN
    IF char_len = 0 \/ k + char_len > Len(bs)
    THEN [unit |-> Placeholder, adv |-> 1]
    ELSE LET slice == Slice(bs, k, k + char_len) IN
         IF from_utf8_ok(slice)
         THEN LET g == <<Utf8CodePoint(slice)>>
                  width == Max(StrWidth(g), 1)
                  display == IF is_displayable(g) THEN g ELSE Dot
              IN [unit |-> DecodedChar(display, char_len, width), adv |-> char_len]
         ELSE [unit |-> Placeholder, adv |-> 1]

\* ------------------------------------------------------------------ UTF-16

RECURSIVE BitOr(_, _)
BitOr(a, b) ==
    IF a = 0 THEN b
    ELSE IF b = 0 THEN a
    ELSE Max(a % 2, b % 2) + 2 * BitOr(a \div 2, b \div 2)

\* char::from_u32(v).is_some(): a Unicode scalar value.
IsScalar(v) == v <= 1114111 /\ ~(v >= 55296 /\ v <= 57343)

\* u16::from_le_bytes / u16::from_be_bytes of the two bytes at offset k.
CodeUnit(bs, k, is_le) ==
    IF is_le THEN At(bs, k) + 256 * At(bs, k + 1)
    ELSE 256 * At(bs, k) + At(bs, k + 1)

IsHighSurrogate(u) == u >= 55296 /\ u <= 56319

IsLowSurrogate(u) == u >= 56320 /\ u <= 57343

\* SurrogateCodePoint without the 0x10000 offset of the supplementary planes.
SurrogateCodePointNoOffset(high, low) ==
    BitOr(Shl(high - \hD800, 10), low - \hDC00)

\* 0x10000 + (((code_unit as u32 - 0xD800) << 10) | (low as u32 - 0xDC00))
SurrogateCodePoint(high, low) ==
    \h10000 + BitOr(Shl(high - \hD800, 10), low - \hDC00)

\* The ordinary 2-byte unit of decode_utf16_for_display.
Utf16Plain(code_unit) ==
    IF IsScalar(code_unit)
    THEN LET s == <<code_unit>>
             width == IF is_displayable(s) THEN Max(StrWidth(s), 1) ELSE 1
             display == IF is_displayable(s) THEN s ELSE Dot
         IN [unit |-> DecodedChar(display, 2, width), adv |-> 2]
    ELSE [unit |-> DecodedChar(Dot, 2, 1), adv |-> 2]

\* One iteration of decode_utf16_for_display's loop at offset k (k + 1 < len).
Utf16Iter(bs, k, is_le) ==
    LET code_unit == CodeUnit(bs, k, is_le) IN
    IF IsHighSurrogate(code_unit) /\ k + 3 < Len(bs)
          /\ IsLowSurrogate(CodeUnit(bs, k + 2, is_le))
    THEN LET low == CodeUnit(bs, k + 2, is_le)
             code_point == SurrogateCodePoint(code_unit, low)
         IN IF IsScalar(code_point)
            THEN LET s == <<code_point>>
                 IN [unit |-> DecodedChar(s, 4, Max(StrWidth(s), 1)), adv |-> 4]
            ELSE Utf16Plain(code_unit)
    ELSE Utf16Plain(code_unit)

\* ------------------------------------------- Shift-JIS and EUC-JP (encoding_rs)

\* Encoding::decode / Encoding::encode of encoding_rs follow the WHATWG
\* Encoding Standard; the decoders and encoders below are its algorithms. The
\* JIS X 0208 and JIS X 0212 index tables are cut to the rows the input
\* alphabets below reach; a pointer outside them is unassigned (0).

Replacement == \hFFFD

\* Row 2 of JIS X 0208, cells 1..14 (pointers 94..107).
Jis0208Row2 ==
    <<\h25C6, \h25A1, \h25A0, \h25B3, \h25B2, \h25BD, \h25BC,
      \h203B, \h3012, \h2192, \h2190, \h2191, \h2193, \h3013>>

\* index jis0208: pointer -> code point, 0 when unassigned.
Jis0208Index(p) ==
    IF p >= 94 /\ p <= 107 THEN Jis0208Row2[p - 93]
    ELSE IF p >= 203 /\ p <= 212 THEN \hFF10 + (p - 203)
    ELSE IF p >= 220 /\ p <= 245 THEN \hFF21 + (p - 220)
    ELSE IF p >= 252 /\ p <= 277 THEN \hFF41 + (p - 252)
    ELSE IF p >= 282 /\ p <= 364 THEN \h3041 + (p - 282)
    ELSE IF p >= 376 /\ p <= 461 THEN \h30A1 + (p - 376)
    ELSE 0

Jis0208Pointers == (94..107) \cup (203..212) \cup (220..245) \cup (252..277)
                      \cup (282..364) \cup (376..461)

\* index jis0208 read backwards: -1 when the code point is not in it.
Jis0208Pointer(cp) ==
    IF \E p \in Jis0208Pointers : Jis0208Index(p) = cp
    THEN CHOOSE p \in Jis0208Pointers : Jis0208Index(p) = cp
    ELSE -1

\* index jis0212: pointer -> code point, 0 when unassigned.
Jis0212Index(p) == IF p = 108 THEN \h02D8 ELSE 0

\* Decoder results: the text so far and whether a malformed sequence was met.
Cons(cp, r) == [text |-> <<cp>> \o r.text, had_errors |-> r.had_errors]

Bad(r) == [text |-> <<Replacement>> \o r.text, had_errors |-> TRUE]

IsSjisLead(b) == (b >= \h81 /\ b <= \h9F) \/ (b >= \hE0 /\ b <= \hFC)

IsSjisTrail(b) == (b >= \h40 /\ b <= \h7E) \/ (b >= \h80 /\ b <= \hFC)

SjisPointer(lead, trail) ==
    (lead - (IF lead < \hA0 THEN \h81 ELSE \hC1)) * 188
        + trail - (IF trail < \h7F THEN \h40 ELSE \h41)

SjisCodePoint(lead, trail) ==
    IF ~IsSjisTrail(trail) THEN 0
    ELSE LET p == SjisPointer(lead, trail) IN
         IF p >= 8836 /\ p <= 10715 THEN \hE000 - 8836 + p
         ELSE Jis0208Index(p)

\* The Shift_JIS decoder on s from position p (1-based) to the end of s.
RECURSIVE SjisDecode(_, _)
SjisDecode(s, p) ==
    IF p > Len(s) THEN [text |-> <<>>, had_errors |-> FALSE]
    ELSE LET b == s[p] IN
         IF b <= \h80 THEN Cons(b, SjisDecode(s, p + 1))
         ELSE IF b >= \hA1 /\ b <= \hDF
              THEN Cons(\hFF61 - \hA1 + b, SjisDecode(s, p + 1))
         ELSE IF IsSjisLead(b)
              THEN IF p = Len(s) THEN Bad([text |-> <<>>, had_errors |-> TRUE])
                   ELSE LET cp == SjisCodePoint(b, s[p + 1]) IN
                        IF cp # 0 THEN Cons(cp, SjisDecode(s, p + 2))
                        ELSE IF s[p + 1] <= \h7F THEN Bad(SjisDecode(s, p + 1))
                        ELSE Bad(SjisDecode(s, p + 2))
         ELSE Bad(SjisDecode(s, p + 1))

IsEucTrail(b) == b >= \hA1 /\ b <= \hFE

EucPointer(lead, trail) == (lead - \hA1) * 94 + trail - \hA1

\* The EUC-JP decoder on s from position p (1-based) to the end of s.
RECURSIVE EucDecode(_, _)
EucDecode(s, p) ==
    IF p > Len(s) THEN [text |-> <<>>, had_errors |-> FALSE]
    ELSE LET b == s[p]
             eof == [text |-> <<>>, had_errors |-> TRUE]
         IN
         IF b <= \h7F THEN Cons(b, EucDecode(s, p + 1))
         ELSE IF b = \h8E
              THEN IF p = Len(s) THEN Bad(eof)
                   ELSE IF s[p + 1] >= \hA1 /\ s[p + 1] <= \hDF
                        THEN Cons(\hFF61 - \hA1 + s[p + 1], EucDecode(s, p + 2))
                   ELSE IF s[p + 1] <= \h7F THEN Bad(EucDecode(s, p + 1))
                   ELSE Bad(EucDecode(s, p + 2))
         ELSE IF b = \h8F
              THEN IF p = Len(s) THEN Bad(eof)
                   ELSE IF ~IsEucTrail(s[p + 1])
                        THEN IF s[p + 1] <= \h7F THEN Bad(EucDecode(s, p + 1))
                             ELSE Bad(EucDecode(s, p + 2))
                   ELSE IF p + 1 = Len(s) THEN Bad(eof)
                   ELSE LET cp == IF IsEucTrail(s[p + 2])
                                  THEN Jis0212Index(EucPointer(s[p + 1], s[p + 2]))
                                  ELSE 0
                        IN IF cp # 0 THEN Cons(cp, EucDecode(s, p + 3))
                           ELSE IF s[p + 2] <= \h7F THEN Bad(EucDecode(s, p + 2))
                           ELSE Bad(EucDecode(s, p + 3))
         ELSE IF IsEucTrail(b)
              THEN IF p = Len(s) THEN Bad(eof)
                   ELSE LET cp == IF IsEucTrail(s[p + 1])
                                  THEN Jis0208Index(EucPointer(b, s[p + 1]))
                                  ELSE 0
                        IN IF cp # 0 THEN Cons(cp, EucDecode(s, p + 2))
                           ELSE IF s[p + 1] <= \h7F THEN Bad(EucDecode(s, p + 1))
                           ELSE Bad(EucDecode(s, p + 2))
         ELSE Bad(EucDecode(s, p + 1))

\* enc.decode(slice): (text, had_errors)
RsDecode(enc, s) == IF enc = "ShiftJis" THEN SjisDecode(s, 1) ELSE EucDecode(s, 1)

RECURSIVE DecimalDigits(_)
DecimalDigits(n) ==
    IF n < 10 THEN <<\h30 + n>>
    ELSE DecimalDigits(n \div 10) \o <<\h30 + (n % 10)>>

\* The numeric character reference "&#N;" an encoder writes for a char it
\* cannot map.
Ncr(cp) == <<\h26, \h23>> \o DecimalDigits(cp) \o <<\h3B>>

\* The Shift_JIS encoder on one char.
SjisEncodeChar(cp0) ==
    LET cp == IF cp0 = \h2212 THEN \hFF0D ELSE cp0
        p == Jis0208Pointer(cp)
    IN IF cp <= \h80 THEN <<cp>>
       ELSE IF cp = \hA5 THEN <<\h5C>>
       ELSE IF cp = \h203E THEN <<\h7E>>
       ELSE IF cp >= \hFF61 /\ cp <= \hFF9F THEN <<cp - \hFF61 + \hA1>>
       ELSE IF p = -1 THEN Ncr(cp)
       ELSE LET lead == p \div 188
                trail == p % 188
            IN <<lead + (IF lead < \h1F THEN \h81 ELSE \hC1),
                 trail + (IF trail < \h3F THEN \h40 ELSE \h41)>>

\* The EUC-JP encoder on one char.
EucEncodeChar(cp0) ==
    LET cp == IF cp0 = \h2212 THEN \hFF0D ELSE cp0
        p == Jis0208Pointer(cp)
    IN IF cp <= \h7F THEN <<cp>>
       ELSE IF cp = \hA5 THEN <<\h5C>>
       ELSE IF cp = \h203E THEN <<\h7E>>
       ELSE IF cp >= \hFF61 /\ cp <= \hFF9F THEN <<\h8E, cp - \hFF61 + \hA1>>
       ELSE IF p = -1 THEN Ncr(cp)
       ELSE <<(p \div 94) + \hA1, (p % 94) + \hA1>>

\* enc.encode(text).0
RECURSIVE RsEncode(_, _)
RsEncode(enc, text) ==
    IF Len(text) = 0 THEN <<>>
    ELSE (IF enc = "ShiftJis" THEN SjisEncodeChar(Head(text))
          ELSE EucEncodeChar(Head(text))) \o RsEncode(enc, Tail(text))

\* Grapheme_Cluster_Break = Extend, cut to the combining diacritics and the
\* halfwidth katakana sound marks.
IsExtend(cp) == (cp >= \h300 /\ cp <= \h36F) \/ cp = \hFF9E \/ cp = \hFF9F

\* s.graphemes(true).first(): the first char and the Extend chars after it.
RECURSIVE ExtendRun(_)
ExtendRun(s) ==
    IF Len(s) = 0 \/ ~IsExtend(Head(s)) THEN <<>>
    ELSE <<Head(s)>> \o ExtendRun(Tail(s))

FirstGrapheme(s) == <<Head(s)>> \o ExtendRun(Tail(s))

\* Whether the trial of candidate length len at offset k is accepted.
RsAccepts(bs, k, enc, len) ==
    LET d == RsDecode(enc, Slice(bs, k, k + len)) IN
    /\ ~d.had_errors
    /\ Len(d.text) > 0
    /\ Len(RsEncode(enc, FirstGrapheme(d.text))) = len

RsUnit(bs, k, enc, len) ==
    LET g == FirstGrapheme(RsDecode(enc, Slice(bs, k, k + len)).text)
        width == Max(StrWidth(g), 1)
        display == IF is_displayable(g) THEN g ELSE Dot
    IN DecodedChar(display, len, width)

\* RsIter without the round-trip test: the first candidate length that
\* decodes without error is taken, and the unit is given the byte length of
\* the re-encoded grapheme.
RsIterEncodedLen(bs, k, enc) ==
    LET ok == {len \in 1..Min(4, Len(bs) - k) :
                  LET d == RsDecode(enc, Slice(bs, k, k + len))
                  IN ~d.had_errors /\ Len(d.text) > 0}
    IN IF ok # {}
       THEN LET len == CHOOSE l \in ok : \A m \in ok : l <= m
                u == RsUnit(bs, k, enc, len)
                n == Len(RsEncode(enc, u.display))
            IN [unit |-> DecodedChar(u.display, n, u.width), adv |-> len]
       ELSE [unit |-> Placeholder, adv |-> 1]

\* One iteration of decode_with_encoding_rs's outer loop at offset k.
RsIter(bs, k, enc) ==
    LET ok == {len \in 1..Min(4, Len(bs) - k) : RsAccepts(bs, k, enc, len)}
    IN IF ok # {}
       THEN LET len == CHOOSE l \in ok : \A m \in ok : l <= m
            IN [unit |-> RsUnit(bs, k, enc, len), adv |-> len]
       ELSE [unit |-> Placeholder, adv |-> 1]

\* ------------------------------------------- ASCII, Latin-1, ISO-2022-JP

\* The fallback arm of decode_for_display: one unit per byte.
SingleByteUnit(byte) ==
    LET ch == IF IsPrintableAscii(byte) THEN <<byte>>
              ELSE IF byte < \h20 \/ byte = \h7F THEN Dot
              ELSE IF IsScalar(byte) THEN <<byte>> ELSE Dot
    IN DecodedChar(ch, 1, 1)

\* ------------------------------------------------ decode_for_display: steps

\* The byte values the inputs of each encoding are drawn from: for each
\* scanner, one value of every class of bytes its branches tell apart.
Utf8Bytes == {\h09, \h20, \h7E, \h90, \hC2, \hE3, \hF0, \hFF}

Utf16Bytes == {\h00, \h41, \hD8, \hDC}

SjisBytes == {\h41, \h82, \hA0, \hB1, \hF0}

EucBytes == {\h41, \h8E, \h8F, \hA2, \hA4, \hAF}

SingleBytes == {\h1B, \h41, \h7F, \hE9}

IsUtf16(enc) == enc \in {"Utf16Le", "Utf16Be"}

DecodeInputs(enc) ==
    CASE enc = "Utf8" -> BoundedSeq(Utf8Bytes, MaxLen)
      [] IsUtf16(enc) -> BoundedSeq(Utf16Bytes, MaxLenUtf16)
      [] enc = "ShiftJis" -> BoundedSeq(SjisBytes, MaxLen)
      [] enc = "EucJp" -> BoundedSeq(EucBytes, MaxLen)
      [] OTHER -> BoundedSeq(SingleBytes, MaxLen)

\* The match of decode_for_display: which scanner an encoding goes to.
Scanner(enc) ==
    CASE enc = "Utf8" -> "utf8"
      [] enc \in {"ShiftJis", "EucJp"} -> "rs"
      [] IsUtf16(enc) -> "utf16"
      [] OTHER -> "single"

DecodeInit ==
    /\ encoding \in Encodings
    /\ bytes \in DecodeInputs(encoding)
    /\ i = 0
    /\ result = <<>>
    /\ pc = "call"

\* decode_for_display up to the match: the empty input returns an empty
\* map, any other input a map of len(bytes) empty slots handed to a scanner.
DecodeCall ==
    /\ pc = "call"
    /\ IF Len(bytes) = 0
       THEN result' = <<>> /\ pc' = "done"
       ELSE /\ result' = [k \in 1..Len(bytes) |-> None]
            /\ pc' = Scanner(encoding)
    /\ UNCHANGED <<bytes, encoding, i>>
    /\ UNCHANGED nonDecodeVars

\* Store the unit of one iteration at offset i and advance the scan.
Store(r) ==
    /\ result' = [result EXCEPT ![i + 1] = r.unit]
    /\ i' = i + r.adv
    /\ UNCHANGED <<bytes, encoding, pc>>
    /\ UNCHANGED nonDecodeVars

Utf8Step ==
    /\ pc = "utf8"
    /\ i < Len(bytes)
    /\ Store(Utf8Iter(bytes, i))

Utf16Step ==
    /\ pc = "utf16"
    /\ i + 1 < Len(bytes)
    /\ Store(Utf16Iter(bytes, i, encoding = "Utf16Le"))

\* After the loop of decode_utf16_for_display: the odd trailing byte.
Utf16Tail ==
    /\ pc = "utf16"
    /\ ~(i + 1 < Len(bytes))
    /\ result' = IF i < Len(bytes)
                 THEN [result EXCEPT ![i + 1] = Placeholder]
                 ELSE result
    /\ pc' = "done"
    /\ UNCHANGED <<bytes, encoding, i>>
    /\ UNCHANGED nonDecodeVars

RsStep ==
    /\ pc = "rs"
    /\ i < Len(bytes)
    /\ Store(RsIter(bytes, i, encoding))

SingleStep ==
    /\ pc = "single"
    /\ i < Len(bytes)
    /\ Store([unit |-> SingleByteUnit(At(bytes, i)), adv |-> 1])

\* The loops of the other three scanners end at i >= len; the map is returned.
ScanReturn ==
    /\ pc \in {"utf8", "rs", "single"}
    /\ i >= Len(bytes)
    /\ pc' = "done"
    /\ UNCHANGED <<bytes, encoding, i, result>>
    /\ UNCHANGED nonDecodeVars

DecodeIdle ==
    /\ bytes = <<>>
    /\ encoding = "Utf8"
    /\ i = 0
    /\ result = <<>>
    /\ pc = "idle"

DecodeNext ==
    \/ DecodeCall
    \/ Utf8Step
    \/ Utf16Step
    \/ Utf16Tail
    \/ RsStep
    \/ SingleStep
    \/ ScanReturn

\* ------------------------------------------------ decode_for_display: claims

Slot(k) == result[k + 1]

NonEmptyOffsets == {k \in 0..(Len(result) - 1) : Slot(k).some}

RECURSIVE SumByteLen(_)
SumByteLen(S) ==
    IF S = {} THEN 0
    ELSE LET k == CHOOSE x \in S : TRUE
         IN Slot(k).byte_len + SumByteLen(S \ {k})

\* C1: for every input of length N and every encoding, the returned map has
\* exactly N slots (none for N = 0); slot 0 is non-empty when N > 0; every
\* non-empty slot has byte_len >= 1, its span ends at or before N, the slots
\* strictly inside its span are empty, the next non-empty slot sits right at
\* the end of the span; and the byte_len values sum to N.
C1_DecodeMapPartitions ==
    pc = "done" =>
        LET N == Len(bytes) IN
        /\ Len(result) = N
        /\ N > 0 => Slot(0).some
        /\ \A k \in NonEmptyOffsets :
              LET n == Slot(k).byte_len IN
              /\ n >= 1
              /\ k + n <= N
              /\ \A j \in (k + 1)..(k + n - 1) : ~Slot(j).some
              /\ k + n < N => Slot(k + n).some
        /\ SumByteLen(NonEmptyOffsets) = N

\* A finished decode whose map holds a multi-byte unit after offset 0 and
\* a 1-byte unit, for a multi-byte Japanese encoding.
C1_Witness ==
    /\ pc = "done"
    /\ encoding = "EucJp"
    /\ Len(bytes) = 4
    /\ \E k \in NonEmptyOffsets : k > 0 /\ Slot(k).byte_len = 2
    /\ \E k \in NonEmptyOffsets : Slot(k).byte_len = 1

\* The 16-bit unit at offset k in the endianness of the encoding.
Unit16(k) ==
    IF encoding = "Utf16Le" THEN bytes[k + 1] + 256 * bytes[k + 2]
    ELSE 256 * bytes[k + 1] + bytes[k + 2]

\* The scan of a UTF-16 input stands at offset i with a whole unit ahead.
AtUtf16Unit == pc = "utf16" /\ i + 1 < Len(bytes)

\* A high surrogate at i followed, within the input, by a low surrogate.
PairAt(k) ==
    /\ Unit16(k) >= \hD800 /\ Unit16(k) <= \hDBFF
    /\ k + 4 <= Len(bytes)
    /\ Unit16(k + 2) >= \hDC00 /\ Unit16(k + 2) <= \hDFFF

\* C8: under Utf16Le and Utf16Be, when the scan starts a unit at offset i
\* where a high surrogate H is followed within the input by a low surrogate
\* L, the step stores at slot i one unit of byte_len 4 whose display is the
\* code point 0x10000 + (H - 0xD800) * 0x400 + (L - 0xDC00), leaves slots
\* i+1..i+3 empty and resumes at i+4; a high surrogate with no valid low
\* surrogate after it gives a 2-byte unit and the scan resumes at i+2. The
\* slots inside a 4-byte unit are still empty when the map is returned.
C8_SurrogatePairIsOneUnit ==
    /\ [][AtUtf16Unit =>
            IF PairAt(i)
            THEN /\ result'[i + 1].some
                 /\ result'[i + 1].byte_len = 4
                 /\ result'[i + 1].display =
                       <<\h10000 + (Unit16(i) - \hD800) * 1024
                                 + (Unit16(i + 2) - \hDC00)>>
                 /\ \A j \in (i + 1)..(i + 3) : ~result'[j + 1].some
                 /\ i' = i + 4
            ELSE (Unit16(i) >= \hD800 /\ Unit16(i) <= \hDBFF) =>
                 /\ result'[i + 1].some
                 /\ result'[i + 1].byte_len = 2
                 /\ i' = i + 2]_vars
    /\ [](pc = "done" /\ IsUtf16(encoding) =>
            \A k \in NonEmptyOffsets :
                Slot(k).byte_len = 4 =>
                    \A j \in (k + 1)..(k + 3) : ~Slot(j).some)

\* A returned UTF-16 map with a surrogate pair decoded at offset 2 as one
\* 4-byte unit above the basic plane.
C8_Witness ==
    /\ pc = "done"
    /\ IsUtf16(encoding)
    /\ Len(bytes) = 6
    /\ PairAt(2)
    /\ Slot(2).some
    /\ Slot(2).byte_len = 4
    /\ Slot(2).display[1] >= \h10000

\* C9: under Utf8, every offset the scan has passed whose byte is printable
\* ASCII (0x20..0x7E) holds a unit displaying that character with
\* byte_len 1 and width 1, whatever bytes surround it.
C9_PrintableAsciiDecodesToItself ==
    (encoding = "Utf8" /\ pc \in {"utf8", "done"}) =>
        \A k \in 0..(Len(bytes) - 1) :
            (k < i /\ bytes[k + 1] >= \h20 /\ bytes[k + 1] <= \h7E) =>
                Slot(k) = [some |-> TRUE, display |-> <<bytes[k + 1]>>,
                           byte_len |-> 1, width |-> 1]

\* A returned UTF-8 map where a printable ASCII byte follows a truncated
\* 3-byte lead and its continuation byte.
C9_Witness ==
    /\ pc = "done"
    /\ encoding = "Utf8"
    /\ Len(bytes) = 3
    /\ bytes[1] = \hE3 /\ bytes[2] = \h90 /\ bytes[3] = \h7E
    /\ Slot(2).some

\* ------------------------------------------------ bytes_to_hex, hex_to_bytes

\* Hex text is a sequence of one-character strings.

HexFormats == {"Spaced", "Continuous", "CArray"}

UpperHexDigits ==
    <<"0", "1", "2", "3", "4", "5", "6", "7",
      "8", "9", "A", "B", "C", "D", "E", "F">>

LowerHexDigits ==
    <<"0", "1", "2", "3", "4", "5", "6", "7",
      "8", "9", "a", "b", "c", "d", "e", "f">>

\* format!("{:X}", b): no zero padding.
FormatUpperHexNoPad(b) ==
    IF b < 16 THEN <<UpperHexDigits[b + 1]>>
    ELSE <<UpperHexDigits[(b \div 16) + 1], UpperHexDigits[(b % 16) + 1]>>

\* format!("{:02x}", b): lowercase digits.
FormatLowerHex(b) ==
    <<LowerHexDigits[(b \div 16) + 1], LowerHexDigits[(b % 16) + 1]>>

\* format!("{:02X}", b)
FormatUpperHex(b) ==
    <<UpperHexDigits[(b \div 16) + 1], UpperHexDigits[(b % 16) + 1]>>

\* Vec<String>::join(sep)
RECURSIVE Join(_, _)
Join(parts, sep) ==
    IF Len(parts) = 0 THEN <<>>
    ELSE IF Len(parts) = 1 THEN parts[1]
    ELSE parts[1] \o sep \o Join(Tail(parts), sep)

\* Iterator<String>::collect::<String>()
RECURSIVE Concat(_)
Concat(parts) ==
    IF Len(parts) = 0 THEN <<>> ELSE parts[1] \o Concat(Tail(parts))

bytes_to_hex(bs, format) ==
    CASE format = "Spaced" ->
            Join([k \in 1..Len(bs) |-> FormatUpperHex(bs[k])], <<" ">>)
      [] format = "Continuous" ->
            Concat([k \in 1..Len(bs) |-> FormatUpperHex(bs[k])])
      [] format = "CArray" ->
            LET inner == Join([k \in 1..Len(bs) |->
                                  <<"0", "x">> \o FormatUpperHex(bs[k])],
                              <<",", " ">>)
            IN <<"{", " ">> \o inner \o <<" ", "}">>

\* str::replace(pat, ""): every non-overlapping match of pat, found from
\* left to right, is removed.
RECURSIVE Remove(_, _)
Remove(s, pat) ==
    IF Len(s) < Len(pat) THEN s
    ELSE IF SubSeq(s, 1, Len(pat)) = pat
         THEN Remove(SubSeq(s, Len(pat) + 1, Len(s)), pat)
    ELSE <<s[1]>> \o Remove(Tail(s), pat)

\* char::is_ascii_hexdigit
is_ascii_hexdigit(c) ==
    (\E k \in 1..16 : UpperHexDigits[k] = c) \/ (\E k \in 1..16 : LowerHexDigits[k] = c)

DigitValue(c) ==
    IF \E k \in 1..16 : UpperHexDigits[k] = c
    THEN (CHOOSE k \in 1..16 : UpperHexDigits[k] = c) - 1
    ELSE (CHOOSE k \in 1..16 : LowerHexDigits[k] = c) - 1

\* Cleaned without the final filter: the six removals only.
CleanedNoFilter(hex) ==
    Remove(Remove(Remove(Remove(Remove(Remove(hex,
        <<" ">>), <<",">>), <<"0", "x">>), <<"0", "X">>), <<"{">>), <<"}">>)

\* The `cleaned` string of hex_to_bytes.
Cleaned(hex) ==
    SelectSeq(
        Remove(Remove(Remove(Remove(Remove(Remove(hex,
            <<" ">>), <<",">>), <<"0", "x">>), <<"0", "X">>), <<"{">>), <<"}">>),
        is_ascii_hexdigit)

\* u8::from_str_radix(pair, 16) on a two-character string: the value, or -1
\* for an Err. A leading "+" is accepted as a sign.
from_str_radix(pair) ==
    IF is_ascii_hexdigit(pair[1]) /\ is_ascii_hexdigit(pair[2])
    THEN 16 * DigitValue(pair[1]) + DigitValue(pair[2])
    ELSE IF pair[1] = "+" /\ is_ascii_hexdigit(pair[2]) THEN DigitValue(pair[2])
    ELSE -1

\* Result<Vec<u8>, ClipboardError>
Ok(bs) == [ok |-> TRUE, bytes |-> bs]

InvalidHex(msg) == [ok |-> FALSE, err |-> "InvalidHex", msg |-> msg]

EvenLengthMsg == "Hex string must have even length"

\* The map/collect of hex_to_bytes over the digit pairs of an even-length
\* string: the bytes, or the error of the first malformed pair.
DecodePairs(cleaned) ==
    LET n == Len(cleaned) \div 2
        pair(k) == SubSeq(cleaned, 2 * k - 1, 2 * k)
        bad == {k \in 1..n : from_str_radix(pair(k)) = -1}
    IN IF bad = {}
       THEN Ok([k \in 1..n |-> from_str_radix(pair(k))])
       ELSE InvalidHex(pair(CHOOSE k \in bad : \A m \in bad : k <= m))

\* hex_to_bytes without the length test: a trailing lone digit is dropped.
hex_to_bytes_no_length_test(hex) == DecodePairs(Cleaned(hex))

hex_to_bytes(hex) ==
    LET cleaned == Cleaned(hex) IN
    IF Len(cleaned) % 2 # 0 THEN InvalidHex(EvenLengthMsg)
    ELSE DecodePairs(cleaned)

\* The byte values given to bytes_to_hex, and the bytes of "Hello".
HexByteValues == {\h00, \h05, \h10, \hAB, \hFF}

Hello == <<\h48, \h65, \h6C, \h6C, \h6F>>

\* The characters of the texts given to hex_to_bytes.
HexTextChars == {"A", "B", "C", "0", "x", "X", " ", ",", "{", "g"}

NoResult == [ok |-> FALSE, err |-> "none", msg |-> ""]

\* Either bytes are formatted and the text parsed back, or a text from
\* elsewhere (the clipboard) is parsed.
HexInit ==
    /\ hexOut = NoResult
    /\ \/ /\ hexPc = "format"
          /\ hexIn \in BoundedSeq(HexByteValues, MaxHexBytes) \cup {Hello}
          /\ hexFmt \in HexFormats
          /\ hexStr = <<>>
       \/ /\ hexPc = "parse"
          /\ hexIn = <<>>
          /\ hexFmt = "Spaced"
          /\ hexStr \in BoundedSeq(HexTextChars, MaxHexText)

BytesToHex ==
    /\ hexPc = "format"
    /\ hexStr' = bytes_to_hex(hexIn, hexFmt)
    /\ hexPc' = "formatted"
    /\ UNCHANGED <<hexIn, hexFmt, hexOut>>
    /\ UNCHANGED nonHexVars

HexToBytes ==
    /\ hexPc \in {"formatted", "parse"}
    /\ hexOut' = hex_to_bytes(hexStr)
    /\ hexPc' = IF hexPc = "formatted" THEN "roundtrip" ELSE "parsed"
    /\ UNCHANGED <<hexIn, hexFmt, hexStr>>
    /\ UNCHANGED nonHexVars

HexIdle ==
    /\ hexIn = <<>>
    /\ hexFmt = "Spaced"
    /\ hexStr = <<>>
    /\ hexOut = NoResult
    /\ hexPc = "idle"

HexNext ==
    \/ BytesToHex
    \/ HexToBytes

\* ---------------------------------------- bytes_to_hex, hex_to_bytes: claims

\* C2: for every byte sequence b (the empty one included) and every format,
\* hex_to_bytes(bytes_to_hex(b, f)) succeeds and returns exactly b.
C2_HexRoundTrip ==
    hexPc = "roundtrip" => hexOut = [ok |-> TRUE, bytes |-> hexIn]

\* A round trip through the C array form of bytes that include a value
\* below 0x10 and one whose first digit follows an "x".
C2_Witness ==
    /\ hexPc = "roundtrip"
    /\ hexFmt = "CArray"
    /\ Len(hexIn) = 3
    /\ \E k \in 1..3 : hexIn[k] = \h05
    /\ \E k \in 1..3 : hexIn[k] = \h00
    /\ hexOut.ok

\* The hex digits of a text: what is left of it once the cleaning of
\* hex_to_bytes has run.
DigitsLeft(text) == Cleaned(text)

\* C6: hex_to_bytes fails with an InvalidHex error, and returns no bytes,
\* whenever the number of hex digits left after cleaning is odd; the text
\* "ABC" is rejected.
C6_OddDigitCountRejected ==
    hexPc \in {"parsed", "roundtrip"} =>
        /\ Len(DigitsLeft(hexStr)) % 2 = 1 =>
              /\ ~hexOut.ok
              /\ hexOut.err = "InvalidHex"
              /\ "bytes" \notin DOMAIN hexOut
        /\ hexStr = <<"A", "B", "C">> => ~hexOut.ok

\* "ABC" has been parsed and rejected.
C6_Witness ==
    /\ hexPc = "parsed"
    /\ hexStr = <<"A", "B", "C">>
    /\ ~hexOut.ok
    /\ hexOut.err = "InvalidHex"

\* C13: for every text, hex_to_bytes returns an error exactly when the
\* number of hex digits left after cleaning is odd; the error is then the
\* even-length one, never the one naming a malformed pair; on success the
\* result has half as many bytes as digits were left, so a text with
\* non-hex characters and an even number of surviving digits is accepted.
C13_ErrorIffOddDigitCount ==
    hexPc \in {"parsed", "roundtrip"} =>
        LET n == Len(DigitsLeft(hexStr)) IN
        /\ ~hexOut.ok <=> n % 2 = 1
        /\ ~hexOut.ok =>
              /\ hexOut.err = "InvalidHex"
              /\ hexOut.msg = "Hex string must have even length"
        /\ hexOut.ok => Len(hexOut.bytes) = n \div 2

\* The text "gAgB" was parsed and accepted as the one byte 0xAB.
C13_Witness ==
    /\ hexPc = "parsed"
    /\ hexStr = <<"g", "A", "g", "B">>
    /\ hexOut.ok
    /\ hexOut.bytes = <<171>>

\* The value of an uppercase hex digit character, -1 for any other.
UpperDigitValue(c) ==
    IF \E k \in 1..16 : UpperHexDigits[k] = c
    THEN (CHOOSE k \in 1..16 : UpperHexDigits[k] = c) - 1
    ELSE -1

\* The two characters at positions p, p+1 of the text are the uppercase
\* hex digits of byte b.
PairIs(text, p, b) ==
    /\ UpperDigitValue(text[p]) = b \div 16
    /\ UpperDigitValue(text[p + 1]) = b % 16

ESC == \h1B

BEL == \h07

\* The standard base64 alphabet, as ASCII codes.
Base64Char(v) ==
    IF v < 26 THEN \h41 + v
    ELSE IF v < 52 THEN \h61 + (v - 26)
    ELSE IF v < 62 THEN \h30 + (v - 52)
    ELSE IF v = 62 THEN \h2B
    ELSE \h2F

Base64Pad == \h3D

\* STANDARD.encode(data): padded standard base64.
RECURSIVE Base64Encode(_)
Base64Encode(bs) ==
    IF Len(bs) = 0 THEN <<>>
    ELSE IF Len(bs) = 1
         THEN <<Base64Char(bs[1] \div 4), Base64Char((bs[1] % 4) * 16),
                Base64Pad, Base64Pad>>
    ELSE IF Len(bs) = 2
         THEN <<Base64Char(bs[1] \div 4),
                Base64Char((bs[1] % 4) * 16 + (bs[2] \div 16)),
                Base64Char((bs[2] % 16) * 4), Base64Pad>>
    ELSE <<Base64Char(bs[1] \div 4),
           Base64Char((bs[1] % 4) * 16 + (bs[2] \div 16)),
           Base64Char((bs[2] % 16) * 4 + (bs[3] \div 64)),
           Base64Char(bs[3] % 64)>>
         \o Base64Encode(SubSeq(bs, 4, Len(bs)))

\* b"\x1b]52;c;"
Osc52Prefix == <<ESC, \h5D, \h35, \h32, \h3B, \h63, \h3B>>

build_osc52_sequence(payload) ==
    Osc52Prefix \o Base64Encode(payload) \o <<BEL>>

\* b"\x1bPtmux;"
TmuxPrefix == <<ESC, \h50, \h74, \h6D, \h75, \h78, \h3B>>

\* b"\x1b\\"
StringTerminator == <<ESC, \h5C>>

\* The loop of wrap_for_tmux with the branches not exclusive: an ESC is
\* pushed twice and then pushed again with the other bytes.
RECURSIVE DoubleEscFallThrough(_)
DoubleEscFallThrough(bs) ==
    IF Len(bs) = 0 THEN <<>>
    ELSE (IF bs[1] = ESC THEN <<ESC, ESC, ESC>> ELSE <<bs[1]>>)
            \o DoubleEscFallThrough(Tail(bs))

\* The loop of wrap_for_tmux: every ESC byte is pushed twice.
RECURSIVE DoubleEsc(_)
DoubleEsc(bs) ==
    IF Len(bs) = 0 THEN <<>>
    ELSE (IF bs[1] = ESC THEN <<ESC, ESC>> ELSE <<bs[1]>>) \o DoubleEsc(Tail(bs))

wrap_for_tmux(seq) == TmuxPrefix \o DoubleEsc(seq) \o StringTerminator

wrap_for_screen(seq) == <<ESC, \h50>> \o seq \o StringTerminator

\* The ASCII code of a character of a hex text.
CharCode(c) ==
    CASE c = " " -> \h20
      [] c = "," -> \h2C
      [] c = "{" -> \h7B
      [] c = "}" -> \h7D
      [] c = "x" -> \h78
      [] DigitValue(c) < 10 -> \h30 + DigitValue(c)
      [] OTHER -> \h41 + (DigitValue(c) - 10)

\* String::as_bytes of a hex text
AsBytes(text) == [k \in 1..Len(text) |-> CharCode(text[k])]

CopyOps == {"copy_hex_to_all", "copy_text_to_all", "copy_to_terminal"}

\* Bytes of the inputs: arbitrary bytes for the two byte-slice arguments,
\* ASCII characters for the text of copy_text_to_all.
CopyByteValues == {ESC, \h41, \hFF}

CopyTextValues == {ESC, \h41, \h7E}

NoText == <<-1>>

CopyInit ==
    /\ copyOp \in CopyOps
    /\ copyData \in IF copyOp = "copy_text_to_all"
                    THEN BoundedSeq(CopyTextValues, MaxCopy)
                    ELSE BoundedSeq(CopyByteValues, MaxCopy)
    /\ copyFmt \in IF copyOp = "copy_hex_to_all" THEN HexFormats ELSE {"Spaced"}
    /\ tmux \in BOOLEAN
    /\ sty \in BOOLEAN
    /\ sysClip = NoText
    /\ sysResult = "none"
    /\ osc52 = <<>>
    /\ sequence = <<>>
    /\ stdout = <<>>
    /\ flushed = FALSE
    /\ termResult = "none"
    /\ returned = "none"
    /\ copyPc = "call"

\* The text the operation puts on a clipboard, as bytes.
CopyPayload ==
    IF copyOp = "copy_hex_to_all" THEN AsBytes(bytes_to_hex(copyData, copyFmt))
    ELSE copyData

\* copy_hex / copy_text, the first statement of copy_hex_to_all and
\* copy_text_to_all: Clipboard::new() and set_text may each fail.
CopySystem ==
    /\ copyPc = "call"
    /\ copyOp \in {"copy_hex_to_all", "copy_text_to_all"}
    /\ \E new_ok \in BOOLEAN, set_ok \in BOOLEAN :
          IF new_ok /\ set_ok
          THEN sysClip' = CopyPayload /\ sysResult' = "Ok"
          ELSE sysClip' = sysClip /\ sysResult' = "Arboard"
    /\ copyPc' = "build"
    /\ UNCHANGED <<copyOp, copyData, copyFmt, tmux, sty, osc52, sequence, stdout,
                   flushed, termResult, returned>>
    /\ UNCHANGED nonCopyVars

\* copy_to_terminal called directly.
CopyToTerminalCall ==
    /\ copyPc = "call"
    /\ copyOp = "copy_to_terminal"
    /\ copyPc' = "build"
    /\ UNCHANGED <<copyOp, copyData, copyFmt, tmux, sty, sysClip, sysResult, osc52,
                   sequence, stdout, flushed, termResult, returned>>
    /\ UNCHANGED nonCopyVars

\* copy_to_terminal: let osc52 = build_osc52_sequence(data)
BuildOsc52 ==
    /\ copyPc = "build"
    /\ osc52' = build_osc52_sequence(CopyPayload)
    /\ copyPc' = "frame"
    /\ UNCHANGED <<copyOp, copyData, copyFmt, tmux, sty, sysClip, sysResult,
                   sequence, stdout, flushed, termResult, returned>>
    /\ UNCHANGED nonCopyVars

\* FrameFor with the two tests in the other order: screen before tmux.
FrameForScreenFirst(in_tmux, in_screen, seq) ==
    IF in_screen THEN wrap_for_screen(seq)
    ELSE IF in_tmux THEN wrap_for_tmux(seq)
    ELSE seq

\* copy_to_terminal: the choice of `sequence`.
FrameFor(in_tmux, in_screen, seq) ==
    IF in_tmux THEN wrap_for_tmux(seq)
    ELSE IF in_screen THEN wrap_for_screen(seq)
    ELSE seq

Frame ==
    /\ copyPc = "frame"
    /\ sequence' = FrameFor(tmux, sty, osc52)
    /\ copyPc' = "write"
    /\ UNCHANGED <<copyOp, copyData, copyFmt, tmux, sty, sysClip, sysResult, osc52,
                   stdout, flushed, termResult, returned>>
    /\ UNCHANGED nonCopyVars

\* stdout.write_all(&sequence)?: all of it is written, or the write fails
\* with some proper prefix written and copy_to_terminal returns the error.
WriteAll ==
    /\ copyPc = "write"
    /\ \/ /\ stdout' = stdout \o sequence
          /\ termResult' = termResult
          /\ copyPc' = "flush"
       \/ /\ \E n \in 0..(Len(sequence) - 1) :
                stdout' = stdout \o SubSeq(sequence, 1, n)
          /\ termResult' = "Io"
          /\ copyPc' = "return"
    /\ UNCHANGED <<copyOp, copyData, copyFmt, tmux, sty, sysClip, sysResult, osc52,
                   sequence, flushed, returned>>
    /\ UNCHANGED nonCopyVars

\* stdout.flush()?; Ok(())
Flush ==
    /\ copyPc = "flush"
    /\ \/ flushed' = TRUE /\ termResult' = "Ok"
       \/ flushed' = flushed /\ termResult' = "Io"
    /\ copyPc' = "return"
    /\ UNCHANGED <<copyOp, copyData, copyFmt, tmux, sty, sysClip, sysResult, osc52,
                   sequence, stdout, returned>>
    /\ UNCHANGED nonCopyVars

\* CopyReturn with the terminal's error propagated when the OS clipboard
\* copy succeeded.
CopyReturnPropagating ==
    /\ copyPc = "return"
    /\ returned' = IF copyOp = "copy_to_terminal" THEN termResult
                   ELSE IF sysResult = "Ok" THEN termResult
                   ELSE sysResult
    /\ copyPc' = "done"
    /\ UNCHANGED <<copyOp, copyData, copyFmt, tmux, sty, sysClip, sysResult, osc52,
                   sequence, stdout, flushed, termResult>>
    /\ UNCHANGED nonCopyVars

\* The called function returns: copy_to_terminal its own Result, the two
\* *_to_all functions `result`, with the terminal's Result dropped (let _ =).
CopyReturn ==
    /\ copyPc = "return"
    /\ returned' = IF copyOp = "copy_to_terminal" THEN termResult ELSE sysResult
    /\ copyPc' = "done"
    /\ UNCHANGED <<copyOp, copyData, copyFmt, tmux, sty, sysClip, sysResult, osc52,
                   sequence, stdout, flushed, termResult>>
    /\ UNCHANGED nonCopyVars

CopyIdle ==
    /\ copyOp = "copy_to_terminal"
    /\ copyData = <<>>
    /\ copyFmt = "Spaced"
    /\ tmux = FALSE
    /\ sty = FALSE
    /\ sysClip = NoText
    /\ sysResult = "none"
    /\ osc52 = <<>>
    /\ sequence = <<>>
    /\ stdout = <<>>
    /\ flushed = FALSE
    /\ termResult = "none"
    /\ returned = "none"
    /\ copyPc = "idle"

CopyNext ==
    \/ CopySystem
    \/ CopyToTerminalCall
    \/ BuildOsc52
    \/ Frame
    \/ WriteAll
    \/ Flush
    \/ CopyReturn

\* ---------------------------------------------- OSC 52, copy to all: claims

\* The wrapped sequence without its envelope: the leading ESC P "tmux;" and
\* the trailing ESC \.
StripEnvelope(w) == SubSeq(w, 8, Len(w) - 2)

\* Every doubled ESC collapsed to one.
RECURSIVE CollapseEsc(_)
CollapseEsc(bs) ==
    IF Len(bs) = 0 THEN <<>>
    ELSE IF Len(bs) >= 2 /\ bs[1] = \h1B /\ bs[2] = \h1B
         THEN <<\h1B>> \o CollapseEsc(SubSeq(bs, 3, Len(bs)))
    ELSE <<bs[1]>> \o CollapseEsc(Tail(bs))

\* The value of a base64 character of the standard alphabet: A-Z, a-z, 0-9,
\* "+", "/"; -1 for any other byte.
Base64Value(c) ==
    IF c >= 65 /\ c <= 90 THEN c - 65
    ELSE IF c >= 97 /\ c <= 122 THEN c - 97 + 26
    ELSE IF c >= 48 /\ c <= 57 THEN c - 48 + 52
    ELSE IF c = 43 THEN 62
    ELSE IF c = 47 THEN 63
    ELSE -1

\* Standard base64 read back to bytes, four characters at a time.
RECURSIVE Base64Decode(_)
Base64Decode(t) ==
    IF Len(t) < 4 THEN <<>>
    ELSE LET a == Base64Value(t[1])
             b == Base64Value(t[2])
             c == Base64Value(t[3])
             d == Base64Value(t[4])
             rest == Base64Decode(SubSeq(t, 5, Len(t)))
         IN IF t[3] = 61 THEN <<a * 4 + (b \div 16)>>
            ELSE IF t[4] = 61 THEN <<a * 4 + (b \div 16), (b % 16) * 16 + (c \div 4)>>
            ELSE <<a * 4 + (b \div 16), (b % 16) * 16 + (c \div 4), (c % 4) * 64 + d>>
                 \o rest

\* The payload bytes of an OSC 52 sequence: between the 7-byte introducer
\* and the final byte.
Osc52Base64(seq) == SubSeq(seq, 8, Len(seq) - 1)

\* C3: for every payload, the tmux-wrapped sequence starts with ESC "Ptmux;"
\* and ends with ESC "\"; removing that envelope and collapsing every doubled
\* ESC gives byte for byte the unwrapped sequence, which is ESC "]52;c;",
\* the padded standard base64 of the payload, and one BEL.
C3_TmuxUnwrapsToOsc52 ==
    (copyPc \in {"write", "flush", "return", "done"} /\ tmux) =>
        LET w == sequence
            b64 == Osc52Base64(osc52)
        IN
        /\ SubSeq(w, 1, 7) = <<\h1B, \h50, \h74, \h6D, \h75, \h78, \h3B>>
        /\ SubSeq(w, Len(w) - 1, Len(w)) = <<\h1B, \h5C>>
        /\ CollapseEsc(StripEnvelope(w)) = osc52
        /\ SubSeq(osc52, 1, 7) = <<\h1B, \h5D, \h35, \h32, \h3B, \h63, \h3B>>
        /\ osc52[Len(osc52)] = \h07
        /\ Len(b64) = 4 * ((Len(CopyPayload) + 2) \div 3)
        /\ Base64Decode(b64) = CopyPayload
        /\ \A k \in 1..Len(b64) : Base64Value(b64[k]) >= 0 \/ b64[k] = 61

\* The sequence for a 3-byte payload that itself holds an ESC byte was
\* wrapped for tmux.
C3_Witness ==
    /\ copyPc = "write"
    /\ tmux
    /\ copyOp = "copy_to_terminal"
    /\ Len(copyData) = 3
    /\ \E k \in 1..3 : copyData[k] = \h1B
    /\ Len(sequence) = Len(osc52) + 10

\* C7: copy_hex_to_all and copy_text_to_all return exactly the Result of the
\* OS clipboard copy, whatever the terminal write did; the OS clipboard copy
\* is attempted first, and the terminal write is attempted after it whatever
\* its outcome was.
C7_ReturnsOsClipboardResult ==
    copyOp \in {"copy_hex_to_all", "copy_text_to_all"} =>
        /\ copyPc \in {"build", "frame", "write", "flush", "return", "done"}
              => sysResult \in {"Ok", "Arboard"}
        /\ termResult # "none" => sysResult # "none"
        /\ stdout # <<>> => sysResult # "none"
        /\ copyPc = "done" =>
              /\ returned = sysResult
              /\ termResult \in {"Ok", "Io"}

\* copy_hex_to_all returned Ok although the terminal write failed.
C7_Witness ==
    /\ copyPc = "done"
    /\ copyOp = "copy_hex_to_all"
    /\ sysResult = "Ok"
    /\ termResult = "Io"
    /\ returned = "Ok"
    /\ Len(copyData) = 2

\* A byte sequence with every ESC byte written twice.
RECURSIVE EscDoubled(_)
EscDoubled(bs) ==
    IF Len(bs) = 0 THEN <<>>
    ELSE IF Head(bs) = 27 THEN <<27, 27>> \o EscDoubled(Tail(bs))
    ELSE <<Head(bs)>> \o EscDoubled(Tail(bs))

\* The framing the two environment markers call for, of the OSC 52 sequence
\* of the payload: ESC "Ptmux;" + the sequence with ESC doubled + ESC "\"
\* with the tmux marker, whatever the screen marker is; else ESC "P" + the
\* sequence + ESC "\" with the screen marker; else the sequence.
ExpectedFraming ==
    LET inner == build_osc52_sequence(CopyPayload) IN
    IF tmux
    THEN <<27, 80, 116, 109, 117, 120, 59>> \o EscDoubled(inner) \o <<27, 92>>
    ELSE IF sty THEN <<27, 80>> \o inner \o <<27, 92>>
    ELSE inner

\* C12: copy_to_terminal writes exactly one framing of the OSC 52 sequence,
\* chosen by the tmux marker first, then the screen marker, else bare. After
\* a successful write the stream is flushed (the flush itself may fail); a
\* write that fails leaves a proper prefix of the framing, is returned as an
\* error, and the stream is not flushed.
C12_OneFramingThenFlush ==
    copyPc \in {"flush", "return", "done"} =>
        LET want == ExpectedFraming IN
        /\ copyPc = "flush" =>
              /\ stdout = want
              /\ ~flushed
              /\ termResult = "none"
        /\ copyPc \in {"return", "done"} =>
              \/ stdout = want /\ flushed /\ termResult = "Ok"
              \/ stdout = want /\ ~flushed /\ termResult = "Io"
              \/ /\ Len(stdout) < Len(want)
                 /\ stdout = SubSeq(want, 1, Len(stdout))
                 /\ ~flushed
                 /\ termResult = "Io"
        /\ (copyPc = "done" /\ copyOp = "copy_to_terminal") =>
              returned = termResult

\* With both markers present, copy_to_terminal wrote the tmux framing of a
\* payload and flushed.
C12_Witness ==
    /\ copyPc = "done"
    /\ copyOp = "copy_to_terminal"
    /\ tmux
    /\ sty
    /\ Len(copyData) = 2
    /\ flushed
    /\ returned = "Ok"
    /\ SubSeq(stdout, 1, 9) = <<27, 80, 116, 109, 117, 120, 59, 27, 27>>
    /\ Len(stdout) = Len(osc52) + 10

\* ------------------------------------------------------------------ HexView

\* ui::Colors
ADDR == "Cyan"

HEX_NORMAL == "White"

HEX_ZERO == "DarkGray"

HEX_HIGH == "Red"

HEX_PRINTABLE == "Green"

ASCII_NORMAL == "White"

ASCII_CONTROL == "DarkGray"

CURSOR == "Black"

CURSOR_BG == "Yellow"

SELECTION_BG == "Blue"

HEADER == "Yellow"

\* A colour a Style leaves unset.
Unset == "None"

\* HexView::new: bytes_per_row and addr_radix
DefaultBytesPerRow == 16

AddrRadix == 16

NoSelection == <<>>

\* One styled string written by buf.set_string at column x of a row.
Cell(x, glyph, fg, bg) ==
    [written |-> TRUE, x |-> x, glyph |-> glyph, fg |-> fg, bg |-> bg]

\* A slot of a drawn row that render_row writes nothing to.
Untouched == [written |-> FALSE]

\* format!("{:0width$X}", n) / format!("{:0width$}", n): at least `width`
\* digits of n in the given radix, uppercase.
RECURSIVE RadixDigits(_, _, _)
RadixDigits(n, radix, width) ==
    IF n < radix /\ width <= 1 THEN <<UpperHexDigits[n + 1]>>
    ELSE RadixDigits(n \div radix, radix, width - 1) \o <<UpperHexDigits[(n % radix) + 1]>>

format_addr(addr) ==
    IF AddrRadix = 16 THEN RadixDigits(addr, 16, 8)
    ELSE RadixDigits(addr, 10, 10)

byte_color(byte) ==
    IF byte = \h00 THEN HEX_ZERO
    ELSE IF byte = \hFF THEN HEX_HIGH
    ELSE IF byte >= \h20 /\ byte <= \h7E THEN HEX_PRINTABLE
    ELSE HEX_NORMAL

\* encoding::byte_to_char: the char, as its code point ('.' is 0x2E).
byte_to_char(byte) == IF IsPrintableAscii(byte) THEN byte ELSE \h2E

InSelection(k) ==
    /\ selection # NoSelection
    /\ k >= selection[1]
    /\ k <= selection[2]

\* HexSlot with the two highlight tests in the other order: the selection
\* is tested before the cursor.
HexSlotSelectionFirst(k, row_end, x) ==
    IF k < row_end
    THEN LET byte == At(data, k) IN
         IF InSelection(k)
         THEN Cell(x, FormatUpperHex(byte), byte_color(byte), SELECTION_BG)
         ELSE IF k = cursor /\ mode = "Hex"
              THEN Cell(x, FormatUpperHex(byte), CURSOR, CURSOR_BG)
         ELSE Cell(x, FormatUpperHex(byte), byte_color(byte), Unset)
    ELSE IF k = Len(data) /\ k = cursor /\ mode = "Hex"
         THEN Cell(x, <<"_", "_">>, CURSOR, CURSOR_BG)
    ELSE Cell(x, <<" ", " ">>, Unset, Unset)

\* The body of render_row's first loop for offset k, written at column x.
HexSlot(k, row_end, x) ==
    IF k < row_end
    THEN LET byte == At(data, k) IN
         IF k = cursor /\ mode = "Hex"
         THEN Cell(x, FormatUpperHex(byte), CURSOR, CURSOR_BG)
         ELSE IF InSelection(k)
              THEN Cell(x, FormatUpperHex(byte), byte_color(byte), SELECTION_BG)
         ELSE Cell(x, FormatUpperHex(byte), byte_color(byte), Unset)
    ELSE IF k = Len(data) /\ k = cursor /\ mode = "Hex"
         THEN Cell(x, <<"_", "_">>, CURSOR, CURSOR_BG)
    ELSE Cell(x, <<" ", " ">>, Unset, Unset)

\* The body of render_row's second loop for offset k, written at column x.
\* The glyph of a text slot is one char, given by its code point ("_" is
\* 0x5F).
TextSlot(k, row_end, x) ==
    IF k < row_end
    THEN LET byte == At(data, k)
             fg == IF IsPrintableAscii(byte) THEN ASCII_NORMAL ELSE ASCII_CONTROL
         IN
         IF k = cursor /\ mode = "Ascii"
         THEN Cell(x, <<byte_to_char(byte)>>, CURSOR, CURSOR_BG)
         ELSE IF InSelection(k)
              THEN Cell(x, <<byte_to_char(byte)>>, fg, SELECTION_BG)
         ELSE Cell(x, <<byte_to_char(byte)>>, fg, Unset)
    ELSE IF k = Len(data) /\ k = cursor /\ mode = "Ascii"
         THEN Cell(x, <<\h5F>>, CURSOR, CURSOR_BG)
    ELSE Untouched

\* A row render_row returns from without drawing.
NotDrawn == [drawn |-> FALSE]

\* RowSkipped without the end-of-file case: a row with no data is skipped
\* wherever the cursor is.
RowSkippedNoEof(row_start) == row_start >= Len(data)

\* The two early returns of render_row.
RowSkipped(row_start) ==
    LET cursor_at_eof == cursor = Len(data) IN
    \/ row_start > Len(data)
    \/ row_start >= Len(data) /\ ~cursor_at_eof

\* render_row(row_offset, area, buf) for an area at column 0: the address,
\* then one hex slot and one text slot per byte of the row.
render_row(row_offset) ==
    LET row_start == offset + row_offset * bytes_per_row
        row_end == Min(row_start + bytes_per_row, Len(data))
        addr_str == format_addr(row_start)
        hex_x == Len(addr_str) + 2
        text_x == hex_x + 3 * bytes_per_row + 1
    IN IF RowSkipped(row_start) THEN NotDrawn
       ELSE [drawn |-> TRUE,
             addr |-> Cell(0, addr_str, ADDR, Unset),
             hex |-> [k \in 1..bytes_per_row |->
                         HexSlot(row_start + k - 1, row_end, hex_x + 3 * (k - 1))],
             text |-> [k \in 1..bytes_per_row |->
                         TextSlot(row_start + k - 1, row_end, text_x + (k - 1))]]

\* The header line of render: "Offset" padded to 8, the column indices in
\* hex joined by spaces, and "ASCII".
Header ==
    <<"O", "f", "f", "s", "e", "t", " ", " ">> \o <<" ", " ">>
        \o Join([k \in 1..bytes_per_row |-> FormatUpperHex(k - 1)], <<" ">>)
        \o <<" ", " ">> \o <<"A", "S", "C", "I", "I">>

\* (area.height as usize).saturating_sub(1)
VisibleRows(height) == IF height >= 1 THEN height - 1 ELSE 0

ViewByteValues == {\h00, \h41, \h80, \hFF}

ViewModes == {"Hex", "Ascii"}

NoGrid == [header |-> <<>>, rows |-> <<>>]

\* HexView::new(data)
ViewInit ==
    /\ data \in BoundedSeq(ViewByteValues, MaxData)
    /\ offset = 0
    /\ bytes_per_row = DefaultBytesPerRow
    /\ cursor = 0
    /\ selection = NoSelection
    /\ mode = "Hex"
    /\ area_height = 0
    /\ grid = NoGrid
    /\ viewPc = "built"

\* HexView::offset
SetOffset ==
    /\ viewPc = "built"
    /\ \E v \in 0..MaxOffset : offset' = v
    /\ UNCHANGED <<data, bytes_per_row, cursor, selection, mode, area_height, grid, viewPc>>
    /\ UNCHANGED nonViewVars

\* HexView::bytes_per_row
SetBytesPerRow ==
    /\ viewPc = "built"
    /\ \E v \in 0..MaxBytesPerRow : bytes_per_row' = v
    /\ UNCHANGED <<data, offset, cursor, selection, mode, area_height, grid, viewPc>>
    /\ UNCHANGED nonViewVars

\* HexView::cursor
SetCursor ==
    /\ viewPc = "built"
    /\ \E v \in 0..(Len(data) + 1) : cursor' = v
    /\ UNCHANGED <<data, offset, bytes_per_row, selection, mode, area_height, grid, viewPc>>
    /\ UNCHANGED nonViewVars

\* HexView::selection
SetSelection ==
    /\ viewPc = "built"
    /\ \/ selection' = NoSelection
       \/ \E s \in 0..(Len(data) - 1), e \in 0..(Len(data) - 1) : selection' = <<s, e>>
    /\ UNCHANGED <<data, offset, bytes_per_row, cursor, mode, area_height, grid, viewPc>>
    /\ UNCHANGED nonViewVars

\* HexView::mode
SetMode ==
    /\ viewPc = "built"
    /\ \E v \in ViewModes : mode' = v
    /\ UNCHANGED <<data, offset, bytes_per_row, cursor, selection, area_height, grid, viewPc>>
    /\ UNCHANGED nonViewVars

\* Widget::render(self, area, buf): the header, then render_row for each
\* visible row.
Render ==
    /\ viewPc = "built"
    /\ \E height \in 0..MaxHeight :
          /\ area_height' = height
          /\ grid' = [header |-> Header,
                      rows |-> [r \in 1..VisibleRows(height) |-> render_row(r - 1)]]
    /\ viewPc' = "rendered"
    /\ UNCHANGED <<data, offset, bytes_per_row, cursor, selection, mode>>
    /\ UNCHANGED nonViewVars

ViewIdle ==
    /\ data = <<>>
    /\ offset = 0
    /\ bytes_per_row = DefaultBytesPerRow
    /\ cursor = 0
    /\ selection = NoSelection
    /\ mode = "Hex"
    /\ area_height = 0
    /\ grid = NoGrid
    /\ viewPc = "idle"

ViewNext ==
    \/ SetOffset
    \/ SetBytesPerRow
    \/ SetCursor
    \/ SetSelection
    \/ SetMode
    \/ Render

\* ---------------------------------------------------------- HexView: claims

\* The first offset of the r-th visible row (r from 1).
RowStart(r) == offset + (r - 1) * bytes_per_row

\* The foreground of a byte's value class in the hex pane: zero, 0xFF,
\* printable ASCII, any other value.
HexClassFg(b) ==
    CASE b = 0 -> HEX_ZERO
      [] b = 255 -> HEX_HIGH
      [] b >= 32 /\ b <= 126 -> HEX_PRINTABLE
      [] OTHER -> HEX_NORMAL

\* The foreground of a byte's value class in the text pane.
TextClassFg(b) == IF b >= 32 /\ b <= 126 THEN ASCII_NORMAL ELSE ASCII_CONTROL

\* The style the highlight rules give a real byte at offset o in the pane
\* of mode m, whose value-class foreground is fg.
Highlighted(cell, o, m, fg) ==
    IF o = cursor /\ mode = m
    THEN cell.fg = CURSOR /\ cell.bg = CURSOR_BG
    ELSE IF o >= selection[1] /\ o <= selection[2]
         THEN cell.fg = fg /\ cell.bg = SELECTION_BG
    ELSE cell.fg = fg /\ cell.bg = Unset

\* C4: for a selection (s, e) with s <= e, any cursor and any view mode,
\* every rendered real byte offset in [s, e] has the selection background
\* in both panes with its value-class foreground, except that at the cursor
\* the pane of the active view mode has the cursor foreground and background
\* while the other pane still has the selection background; an offset
\* outside [s, e] that is not the active pane's cursor has the plain
\* value-class style.
C4_CursorBeatsSelection ==
    (viewPc = "rendered" /\ selection # NoSelection /\ selection[1] <= selection[2]) =>
        \A r \in 1..Len(grid.rows) :
            grid.rows[r].drawn =>
                \A k \in 1..bytes_per_row :
                    LET o == RowStart(r) + k - 1 IN
                    o < Len(data) =>
                        /\ grid.rows[r].hex[k].written
                        /\ grid.rows[r].text[k].written
                        /\ Highlighted(grid.rows[r].hex[k], o, "Hex",
                                       HexClassFg(data[o + 1]))
                        /\ Highlighted(grid.rows[r].text[k], o, "Ascii",
                                       TextClassFg(data[o + 1]))

\* A rendered row with the selection (0, 1) and the cursor on offset 0 in
\* Hex mode: the hex pane shows the cursor there, the text pane the
\* selection, and offset 1 the selection in the hex pane.
C4_Witness ==
    /\ viewPc = "rendered"
    /\ selection = <<0, 1>>
    /\ cursor = 0
    /\ mode = "Hex"
    /\ offset = 0
    /\ bytes_per_row = 2
    /\ Len(grid.rows) >= 1
    /\ grid.rows[1].drawn
    /\ grid.rows[1].hex[1].bg = CURSOR_BG
    /\ grid.rows[1].text[1].bg = SELECTION_BG
    /\ grid.rows[1].hex[2].bg = SELECTION_BG

\* A cell with the cursor's foreground and background showing glyph g.
IsCursorCell(cell, g) ==
    /\ cell.written
    /\ cell.glyph = g
    /\ cell.fg = CURSOR
    /\ cell.bg = CURSOR_BG

\* C5: when the cursor equals the data length N and the row whose address
\* range contains N is among the visible rows, that row is drawn, also when
\* it starts at N and holds no real byte, with a cursor-styled placeholder
\* at slot N in the pane of the active view mode: "__" in the hex pane for
\* Hex, "_" in the text pane for Ascii. When the cursor is not N, a row
\* starting at or after N is not drawn.
C5_EofCursorPlaceholder ==
    viewPc = "rendered" =>
        LET N == Len(data) IN
        \A r \in 1..Len(grid.rows) :
            /\ (cursor = N /\ RowStart(r) <= N /\ N < RowStart(r) + bytes_per_row) =>
                  /\ grid.rows[r].drawn
                  /\ LET k == N - RowStart(r) + 1 IN
                     IF mode = "Hex"
                     THEN IsCursorCell(grid.rows[r].hex[k], <<"_", "_">>)
                     ELSE IsCursorCell(grid.rows[r].text[k], <<95>>)
            /\ (cursor # N /\ RowStart(r) >= N) => ~grid.rows[r].drawn

\* The cursor is at the end of two bytes of data and the second visible
\* row, which starts there and holds no byte, is drawn with the text pane's
\* placeholder.
C5_Witness ==
    /\ viewPc = "rendered"
    /\ Len(data) = 2
    /\ cursor = 2
    /\ mode = "Ascii"
    /\ offset = 0
    /\ bytes_per_row = 2
    /\ Len(grid.rows) = 2
    /\ grid.rows[2].drawn
    /\ grid.rows[2].text[1].written
    /\ grid.rows[2].text[1].glyph = <<95>>

\* ------------------------------------------------------ CharEncoding::next

\* next with the last arm going to Utf16Le: Utf8 is left out of the cycle.
next_skipping_utf8(e) ==
    CASE e = "Utf8" -> "Utf16Le"
      [] e = "Utf16Le" -> "Utf16Be"
      [] e = "Utf16Be" -> "ShiftJis"
      [] e = "ShiftJis" -> "EucJp"
      [] e = "EucJp" -> "Iso2022Jp"
      [] e = "Iso2022Jp" -> "Ascii"
      [] e = "Ascii" -> "Latin1"
      [] e = "Latin1" -> "Utf16Le"

\* CharEncoding::next
next(e) ==
    CASE e = "Utf8" -> "Utf16Le"
      [] e = "Utf16Le" -> "Utf16Be"
      [] e = "Utf16Be" -> "ShiftJis"
      [] e = "ShiftJis" -> "EucJp"
      [] e = "EucJp" -> "Iso2022Jp"
      [] e = "Iso2022Jp" -> "Ascii"
      [] e = "Ascii" -> "Latin1"
      [] e = "Latin1" -> "Utf8"

\* A holder of an encoding starts from any of the eight.
CycleInit ==
    /\ current \in Encodings
    /\ visited = <<current>>
    /\ cyclePc = "cycling"

\* current = current.next()
CycleStep ==
    /\ cyclePc = "cycling"
    /\ Len(visited) <= MaxSteps
    /\ current' = next(current)
    /\ visited' = Append(visited, current')
    /\ UNCHANGED cyclePc
    /\ UNCHANGED nonCycleVars

CycleIdle ==
    /\ current = "Utf8"
    /\ visited = <<>>
    /\ cyclePc = "idle"

CycleNext == CycleStep

\* ---------------------------------------------- CharEncoding::next: claims

\* The number of variants of CharEncoding.
EncodingCount == Cardinality(Encodings)

\* C11: next is a permutation of the eight encodings forming one cycle:
\* from any start, the encoding after j calls equals the encoding after k
\* calls exactly when k - j is a multiple of 8, so the first 8 are all
\* different (every other encoding is visited once), the start comes back
\* after exactly 8 calls and not earlier; next maps the set onto itself and
\* no two encodings have the same successor.
C11_NextIsOneCycle ==
    cyclePc = "cycling" =>
        /\ EncodingCount = 8
        /\ current \in Encodings
        /\ \A j, k \in 1..Len(visited) :
              (visited[j] = visited[k]) <=> ((k - j) % 8 = 0)
        /\ Len(visited) >= 8 => {visited[k] : k \in 1..8} = Encodings
        /\ \A k \in 1..Len(visited) :
              Cardinality({e \in Encodings : next(e) = visited[k]}) = 1

\* Eight calls from ShiftJis have come back to ShiftJis, through Utf8.
C11_Witness ==
    /\ cyclePc = "cycling"
    /\ Len(visited) = 9
    /\ visited[1] = "ShiftJis"
    /\ visited[9] = "ShiftJis"
    /\ current = "ShiftJis"
    /\ \E k \in 2..8 : visited[k] = "Utf8"

\* ------------------------------------------------------------ specifications

InitDecode == DecodeInit /\ HexIdle /\ CopyIdle /\ ViewIdle /\ CycleIdle

SpecDecode == InitDecode /\ [][DecodeNext]_vars

InitHex == HexInit /\ DecodeIdle /\ CopyIdle /\ ViewIdle /\ CycleIdle

SpecHex == InitHex /\ [][HexNext]_vars

InitCopy == CopyInit /\ DecodeIdle /\ HexIdle /\ ViewIdle /\ CycleIdle

SpecCopy == InitCopy /\ [][CopyNext]_vars

InitView == ViewInit /\ DecodeIdle /\ HexIdle /\ CopyIdle /\ CycleIdle

SpecView == InitView /\ [][ViewNext]_vars

InitCycle == CycleInit /\ DecodeIdle /\ HexIdle /\ CopyIdle /\ ViewIdle

SpecCycle == InitCycle /\ [][CycleNext]_vars

====
